---- MODULE Spec2Model ----
(***************************************************************************)
(* Monte Carlo Tree Search move selection (mcts_vanilla.py and             *)
(* mcts_modified.py).  The model follows think(): a fixed budget of        *)
(* iterations, each one traverse_nodes -> expand_leaf -> rollout ->        *)
(* is_win -> backpropagate, then get_best_action.  The modified variant    *)
(* adds the module-level dictionary last_good_replies, read and written    *)
(* by rollout.  random.choice is a nondeterministic choice.                *)
(***************************************************************************)
EXTENDS Integers, Sequences, FiniteSets, TLC

VARIABLES
    variant,        \* which module runs: "vanilla" or "modified"
    num_nodes,      \* iteration budget of think (module constant num_nodes)
    decisions,      \* number of think calls started in this process
    pc,             \* position inside think
    err,            \* exception that ended think, "" when none
    current_state,  \* think's argument
    bot_identity,   \* think's bot_identity
    nodes,          \* the tree: node id -> MCTSNode fields, root is id 1
    iter,           \* completed iterations of think's for loop
    node,           \* think's local node (a node id)
    state,          \* think's local state / rollout's local state
    action_used,    \* rollout's local list of (action, identity) pairs
    prev_action,    \* rollout's local prev_action, None when unset
    played,         \* record of the current rollout: action, state it was played
                    \* in, mover, recorded identity
    winning_bot,    \* rollout's local winning_bot (0 before it is computed)
    win,            \* think's local win
    best_action,    \* value returned by think, None before it returns
    last_good_replies  \* module-level dict of mcts_modified.py

vars == <<variant, num_nodes, decisions, pc, err, current_state, bot_identity,
          nodes, iter, node, state, action_used, prev_action, played,
          winning_bot, win, best_action, last_good_replies>>

\* ---------------------------------------------------------------- bounds
\* num_nodes is 100 (vanilla) and 900 (modified) in the modules; the model
\* runs every budget from 1 to MaxBudget
MaxBudget == 6

\* think calls per process
MaxDecisions == 2

\* Python's None, for states, actions and nodes alike
None == 0

\* explore_faction = 2. ; kept as an integer factor of the fixed-point UCB
explore_faction == 2

\* fixed-point scale of the UCB value (5 decimal digits)
Scale == 100000

\* ---------------------------------------------------------------- Board
\* The game adapter is an argument of think.  The model runs on one small
\* game graph.  Each state is a record: the player to move, whether the game
\* has ended, the winner (0 = nobody), and the legal actions with the state
\* each leads to (None = next_state returns None).
Identities == {1, 2}
Actions == 1..4

St(cp, ended, winner, moves) ==
    [cp |-> cp, ended |-> ended, winner |-> winner, moves |-> moves]

BoardTable == <<
    St(1, FALSE, 0, {<<1, 2>>, <<2, 3>>}),   \* 1: two moves, win / loss for 1
    St(2, TRUE,  1, {}),                     \* 2: ended, 1 has won
    St(1, TRUE,  2, {<<3, None>>}),          \* 3: ended, 2 has won, a cell is still free
    St(2, FALSE, 0, {<<1, 5>>, <<2, 3>>}),   \* 4: two moves, draw / win for 2
    St(1, TRUE,  0, {}),                     \* 5: ended, draw
    St(1, FALSE, 0, {}),                     \* 6: not ended, no legal action
    St(1, FALSE, 0, {<<1, 8>>, <<2, 13>>}),  \* 7: root of the deep game
    St(2, FALSE, 0, {<<2, 9>>}),             \* 8
    St(1, FALSE, 0, {<<1, 5>>, <<3, 10>>, <<4, None>>}), \* 9: action 4 is a dead end
    St(2, FALSE, 0, {<<4, 11>>, <<2, 2>>}),  \* 10
    St(1, FALSE, 0, {<<1, 12>>}),            \* 11
    St(2, TRUE,  2, {}),                     \* 12: ended, 2 has won
    St(2, FALSE, 0, {<<4, 14>>}),            \* 13
    St(1, FALSE, 0, {<<2, 3>>, <<3, 5>>}),   \* 14
    St(1, FALSE, 0, {<<1, 16>>}),            \* 15: one move, then the opponent chooses
    St(2, FALSE, 0, {<<1, 2>>, <<2, 3>>, <<3, 5>>}), \* 16
    St(1, FALSE, 0, {<<1, 10>>, <<2, 16>>, <<3, 13>>})  \* 17: three subgames
>>

States == 1..Len(BoardTable)

current_player(s) == BoardTable[s].cp

is_ended(s) == BoardTable[s].ended

legal_actions(s) == {m[1] : m \in BoardTable[s].moves}

next_state(s, a) == (CHOOSE m \in BoardTable[s].moves : m[1] = a)[2]

\* points_values returns None on a state that has not ended, else the mapping
\* identity -> outcome (1 = that identity has won).  A Python optional is a
\* record here: is_none tells None from a value.
points_values(s) ==
    IF BoardTable[s].ended
    THEN [is_none |-> FALSE,
          value |-> [i \in Identities |-> IF BoardTable[s].winner = i THEN 1 ELSE 0]]
    ELSE [is_none |-> TRUE, value |-> [i \in Identities |-> 0]]

\* ---------------------------------------------------------------- MCTSNode
\* MCTSNode(parent, parent_action, action_list): no children, zero statistics
MCTSNode(parent, parent_action, action_list) ==
    [parent |-> parent, parent_action |-> parent_action,
     child_nodes |-> <<>>, untried_actions |-> action_list,
     wins |-> 0, visits |-> 0]

Root == 1

EmptyDict == [k \in {} |-> None]

\* child_nodes is a dict: a sequence of <<key, node id>> in insertion order
Keys(d) == {d[i][1] : i \in 1..Len(d)}

Values(d) == [i \in 1..Len(d) |-> d[i][2]]

\* dict.update({k: v}): replaces the value of an existing key in place,
\* appends a new key at the end
DictUpdate(d, k, v) ==
    IF k \in Keys(d)
    THEN [i \in 1..Len(d) |-> IF d[i][1] = k THEN <<k, v>> ELSE d[i]]
    ELSE Append(d, <<k, v>>)

\* ---------------------------------------------------------------- ucb
\* SqrtLogTable[N][n] = floor(Scale * math.sqrt(math.log(N) / n)) for
\* 1 <= n <= N <= 12: the statistics a search of the modelled budgets reaches
SqrtLogTable == <<
    <<0>>,
    <<83255, 58870>>,
    <<104814, 74115, 60514>>,
    <<117741, 83255, 67977, 58870>>,
    <<126863, 89706, 73244, 63431, 56735>>,
    <<133856, 94650, 77282, 66928, 59862, 54646>>,
    <<139495, 98638, 80537, 69747, 62384, 56948, 52724>>,
    <<144202, 101966, 83255, 72101, 64489, 58870, 54503, 50983>>,
    <<148230, 104814, 85580, 74115, 66290, 60514, 56025, 52407, 49410>>,
    <<151742, 107298, 87608, 75871, 67861, 61948, 57353, 53649, 50580, 47985>>,
    <<154851, 109496, 89403, 77425, 69251, 63217, 58528, 54748, 51617, 48968, 46689>>,
    <<157635, 111465, 91011, 78817, 70496, 64354, 59580, 55732, 52545, 49848, 47529, 45505>>
>>

\* ucb divides by node.visits and takes the logarithm of node.parent.visits:
\* it raises on a zero of either
ucb_raises(ns, n) == ns[n].visits = 0 \/ ns[ns[n].parent].visits = 0

\* ucb without the flip for the opponent
ucb_no_flip(ns, n, is_opponent) ==
    LET rate == (Scale * ns[n].wins) \div ns[n].visits
    IN  rate + explore_faction * SqrtLogTable[ns[ns[n].parent].visits][ns[n].visits]

\* wins/visits, flipped for the opponent, plus
\* explore_faction * sqrt(log(parent.visits) / visits); in units of 1/Scale.
\* On the statistics the model reaches, the fixed-point values compare
\* exactly as the floating-point values do.
ucb(ns, n, is_opponent) ==
    LET rate == (Scale * ns[n].wins) \div ns[n].visits
        ucb_val == IF is_opponent THEN Scale - rate ELSE rate
    IN  ucb_val + explore_faction * SqrtLogTable[ns[ns[n].parent].visits][ns[n].visits]

\* ---------------------------------------------------------------- traverse_nodes
\* the loop of traverse_nodes with a strict comparison (val > best)
RECURSIVE traverse_scan_strict(_, _, _, _, _)
traverse_scan_strict(ns, cs, i, best, opponent) ==
    IF i > Len(cs) THEN best
    ELSE LET val == ucb(ns, cs[i], opponent)
         IN  traverse_scan_strict(ns, cs, i + 1,
                 IF val > best[1] THEN <<val, cs[i]>> ELSE best, opponent)

\* the for loop of traverse_nodes from child i on; best is <<value, node>>
RECURSIVE traverse_scan(_, _, _, _, _)
traverse_scan(ns, cs, i, best, opponent) ==
    IF i > Len(cs) THEN best
    ELSE LET val == ucb(ns, cs[i], opponent)
         IN  traverse_scan(ns, cs, i + 1,
                 IF val >= best[1] THEN <<val, cs[i]>> ELSE best, opponent)

\* traverse_nodes that recurses with state instead of best_state
RECURSIVE traverse_nodes_stale_state(_, _, _, _)
traverse_nodes_stale_state(ns, n, s, bot) ==
    IF ns[n].untried_actions # {} THEN [node |-> n, state |-> s, raised |-> FALSE]
    ELSE LET cs == Values(ns[n].child_nodes)
         IN  IF \E i \in 1..Len(cs) : ucb_raises(ns, cs[i])
             THEN [node |-> n, state |-> s, raised |-> TRUE]
             ELSE LET opponent == (current_player(s) # bot)
                      best_node == IF Len(cs) = 0 THEN <<0, None>>
                                   ELSE traverse_scan(ns, cs, 1, <<0, None>>, opponent)
                  IN  IF best_node[2] # None
                      THEN traverse_nodes_stale_state(ns, best_node[2], s, bot)
                      ELSE [node |-> n, state |-> s, raised |-> FALSE]

\* traverse_nodes that stops on a node without children instead of a node
\* with untried actions
RECURSIVE traverse_nodes_descend(_, _, _, _)
traverse_nodes_descend(ns, n, s, bot) ==
    IF ns[n].child_nodes = <<>> THEN [node |-> n, state |-> s, raised |-> FALSE]
    ELSE LET cs == Values(ns[n].child_nodes)
         IN  IF \E i \in 1..Len(cs) : ucb_raises(ns, cs[i])
             THEN [node |-> n, state |-> s, raised |-> TRUE]
             ELSE LET opponent == (current_player(s) # bot)
                      best_node == traverse_scan(ns, cs, 1, <<0, None>>, opponent)
                  IN  IF best_node[2] # None
                      THEN traverse_nodes_descend(ns, best_node[2],
                               next_state(s, ns[best_node[2]].parent_action), bot)
                      ELSE [node |-> n, state |-> s, raised |-> FALSE]

\* result: [node, state, raised]; raised when ucb raises on some child
RECURSIVE traverse_nodes(_, _, _, _)
traverse_nodes(ns, n, s, bot) ==
    IF ns[n].untried_actions # {} THEN [node |-> n, state |-> s, raised |-> FALSE]
    ELSE LET cs == Values(ns[n].child_nodes)
         IN  IF \E i \in 1..Len(cs) : ucb_raises(ns, cs[i])
             THEN [node |-> n, state |-> s, raised |-> TRUE]
             ELSE LET opponent == (current_player(s) # bot)
                      best_node == IF Len(cs) = 0 THEN <<0, None>>
                                   ELSE traverse_scan(ns, cs, 1, <<0, None>>, opponent)
                  IN  IF best_node[2] # None
                      THEN traverse_nodes(ns, best_node[2],
                               next_state(s, ns[best_node[2]].parent_action), bot)
                      ELSE [node |-> n, state |-> s, raised |-> FALSE]

\* ---------------------------------------------------------------- backpropagate
\* backpropagate that never counts a win
RECURSIVE backpropagate_no_wins(_, _, _)
backpropagate_no_wins(ns, n, won) ==
    IF n = None THEN ns
    ELSE backpropagate_no_wins([ns EXCEPT ![n].visits = @ + 1], ns[n].parent, won)

\* backpropagate that stops below the root (while node.parent is not None)
RECURSIVE backpropagate_below_root(_, _, _)
backpropagate_below_root(ns, n, won) ==
    IF ns[n].parent = None THEN ns
    ELSE backpropagate_below_root(
             [ns EXCEPT ![n].wins = IF won THEN @ + 1 ELSE @,
                        ![n].visits = @ + 1],
             ns[n].parent, won)

\* backpropagate that counts the visit only in the else branch of "if won"
RECURSIVE backpropagate_else_visit(_, _, _)
backpropagate_else_visit(ns, n, won) ==
    IF n = None THEN ns
    ELSE backpropagate_else_visit(
             [ns EXCEPT ![n].wins = IF won THEN @ + 1 ELSE @,
                        ![n].visits = IF won THEN @ ELSE @ + 1],
             ns[n].parent, won)

\* backpropagate that steps to the parent before it counts: the node it
\* starts from is never updated
RECURSIVE backpropagate_skip_leaf(_, _, _)
backpropagate_skip_leaf(ns, n, won) ==
    IF ns[n].parent = None THEN ns
    ELSE backpropagate_skip_leaf(
             [ns EXCEPT ![ns[n].parent].wins = IF won THEN @ + 1 ELSE @,
                        ![ns[n].parent].visits = @ + 1],
             ns[n].parent, won)

\* backpropagate that turns won round at every level
RECURSIVE backpropagate_flip(_, _, _)
backpropagate_flip(ns, n, won) ==
    IF n = None THEN ns
    ELSE backpropagate_flip(
             [ns EXCEPT ![n].wins = IF won THEN @ + 1 ELSE @,
                        ![n].visits = @ + 1],
             ns[n].parent, ~won)

RECURSIVE backpropagate(_, _, _)
backpropagate(ns, n, won) ==
    IF n = None THEN ns
    ELSE backpropagate(
             [ns EXCEPT ![n].wins = IF won THEN @ + 1 ELSE @,
                        ![n].visits = @ + 1],
             ns[n].parent, won)

\* ---------------------------------------------------------------- get_best_action
\* the loop of get_best_action with the comparison turned round (val <= best)
RECURSIVE best_scan_min(_, _, _, _)
best_scan_min(ns, cs, i, best) ==
    IF i > Len(cs) THEN best
    ELSE LET c == cs[i]
         IN  best_scan_min(ns, cs, i + 1,
                 IF ns[c].wins * best[2] <= best[1] * ns[c].visits
                 THEN <<ns[c].wins, ns[c].visits, c>> ELSE best)

\* the for loop of get_best_action from child i on; best is
\* <<numerator, denominator, node>> of the running best wins/visits
RECURSIVE best_scan(_, _, _, _)
best_scan(ns, cs, i, best) ==
    IF i > Len(cs) THEN best
    ELSE LET c == cs[i]
         IN  best_scan(ns, cs, i + 1,
                 IF ns[c].wins * best[2] >= best[1] * ns[c].visits
                 THEN <<ns[c].wins, ns[c].visits, c>> ELSE best)

\* get_best_action that returns None instead of failing on a childless root
get_best_action_or_none(ns) ==
    LET cs == Values(ns[Root].child_nodes)
    IN  IF \E i \in 1..Len(cs) : ns[cs[i]].visits = 0
        THEN [action |-> None, raised |-> "ZeroDivisionError"]
        ELSE LET best_pick == best_scan(ns, cs, 1, <<0, 1, None>>)
             IN  IF best_pick[3] = None
                 THEN [action |-> None, raised |-> ""]
                 ELSE [action |-> ns[best_pick[3]].parent_action, raised |-> ""]

\* result: [action, raised]; raised is "ZeroDivisionError" when a child has no
\* visit, "AttributeError" when best_pick[1] is None, "" when the function returns
get_best_action(ns) ==
    LET cs == Values(ns[Root].child_nodes)
    IN  IF \E i \in 1..Len(cs) : ns[cs[i]].visits = 0
        THEN [action |-> None, raised |-> "ZeroDivisionError"]
        ELSE LET best_pick == best_scan(ns, cs, 1, <<0, 1, None>>)
             IN  IF best_pick[3] = None
                 THEN [action |-> None, raised |-> "AttributeError"]
                 ELSE [action |-> ns[best_pick[3]].parent_action, raised |-> ""]

\* ---------------------------------------------------------------- is_win
\* the assertion of is_win fails when points_values returns None
is_win_raises(s) == points_values(s).is_none

is_win(s, identity_of_bot) == points_values(s).value[identity_of_bot] = 1

\* ---------------------------------------------------------------- expand_leaf
\* expand_leaf that rebinds child_nodes to a dict holding the new child only
expand_leaf_rebind(ns, n, s, a) ==
    IF ~is_ended(s) /\ ns[n].untried_actions # {}
    THEN LET removed == [ns EXCEPT ![n].untried_actions = @ \ {a}]
             new_state == next_state(s, a)
             new_node == Len(ns) + 1
         IN  IF new_state = None
             THEN [nodes |-> removed, node |-> n, state |-> s, raised |-> TRUE]
             ELSE [nodes |-> Append(
                       [removed EXCEPT ![n].child_nodes = <<<<a, new_node>>>>],
                       MCTSNode(n, a, legal_actions(new_state))),
                   node |-> new_node, state |-> new_state, raised |-> FALSE]
    ELSE [nodes |-> ns, node |-> n, state |-> s, raised |-> FALSE]

\* expand_leaf that empties untried_actions when it has nothing to expand
expand_leaf_clear(ns, n, s, a) ==
    IF ~is_ended(s) /\ ns[n].untried_actions # {}
    THEN LET removed == [ns EXCEPT ![n].untried_actions = @ \ {a}]
             new_state == next_state(s, a)
             new_node == Len(ns) + 1
         IN  IF new_state = None
             THEN [nodes |-> removed, node |-> n, state |-> s, raised |-> TRUE]
             ELSE [nodes |-> Append(
                       [removed EXCEPT ![n].child_nodes = DictUpdate(@, a, new_node)],
                       MCTSNode(n, a, legal_actions(new_state))),
                   node |-> new_node, state |-> new_state, raised |-> FALSE]
    ELSE [nodes |-> [ns EXCEPT ![n].untried_actions = {}],
          node |-> n, state |-> s, raised |-> FALSE]

\* expand_leaf that leaves the chosen action in untried_actions
expand_leaf_keep(ns, n, s, a) ==
    IF ~is_ended(s) /\ ns[n].untried_actions # {}
    THEN LET new_state == next_state(s, a)
             new_node == Len(ns) + 1
         IN  IF new_state = None
             THEN [nodes |-> ns, node |-> n, state |-> s, raised |-> TRUE]
             ELSE [nodes |-> Append(
                       [ns EXCEPT ![n].child_nodes = DictUpdate(@, a, new_node)],
                       MCTSNode(n, a, legal_actions(new_state))),
                   node |-> new_node, state |-> new_state, raised |-> FALSE]
    ELSE [nodes |-> ns, node |-> n, state |-> s, raised |-> FALSE]

\* expand_leaf with random.choice picking a.  Result: [nodes, node, state, raised].
\* The action is removed from untried_actions before next_state is asked, so a
\* next_state of None (legal_actions(None) raises) leaves the removal behind.
expand_leaf(ns, n, s, a) ==
    IF ~is_ended(s) /\ ns[n].untried_actions # {}
    THEN LET removed == [ns EXCEPT ![n].untried_actions = @ \ {a}]
             new_state == next_state(s, a)
             new_node == Len(ns) + 1
         IN  IF new_state = None
             THEN [nodes |-> removed, node |-> n, state |-> s, raised |-> TRUE]
             ELSE [nodes |-> Append(
                       [removed EXCEPT ![n].child_nodes = DictUpdate(@, a, new_node)],
                       MCTSNode(n, a, legal_actions(new_state))),
                   node |-> new_node, state |-> new_state, raised |-> FALSE]
    ELSE [nodes |-> ns, node |-> n, state |-> s, raised |-> FALSE]

\* the actions random.choice can pick in expand_leaf; None stands for the
\* single outcome of the branch that picks nothing
expand_choices(ns, n, s) ==
    IF ~is_ended(s) /\ ns[n].untried_actions # {} THEN ns[n].untried_actions
    ELSE {None}

\* ---------------------------------------------------------------- rollout
\* DictSet with the dict rebound to a fresh single-entry dict
DictSet_rebind(d, k, v) == [x \in {k} |-> v]

\* d[k] = v on a dict kept as a function
DictSet(d, k, v) == [x \in (DOMAIN d) \cup {k} |-> IF x = k THEN v ELSE d[x]]

\* rollout_choices that never looks a reply up
rollout_choices_random(var, s, prev, replies) == legal_actions(s)

\* the actions one pass of the rollout loop can play: the stored reply to
\* prev_action if there is one and it is legal, else any legal action
\* (random.choice); vanilla always chooses at random
rollout_choices(var, s, prev, replies) ==
    IF var = "modified" /\ prev # None /\ prev \in DOMAIN replies
       /\ replies[prev] \in legal_actions(s)
    THEN {replies[prev]}
    ELSE legal_actions(s)

\* winning_bot of rollout: the bot if it won, else the other identity
winning_identity(bot, we_won) ==
    LET winner == IF we_won THEN bot ELSE bot + 1
    IN  IF winner <= 2 THEN winner ELSE 1

\* the update loop stopping after its first write
RECURSIVE update_replies_once(_, _, _)
update_replies_once(replies, used, winner) ==
    IF Len(used) = 0 THEN replies
    ELSE LET curr_action == used[Len(used)]
             rest == SubSeq(used, 1, Len(used) - 1)
         IN  IF curr_action[2] # winner THEN update_replies_once(replies, rest, winner)
             ELSE IF Len(rest) = 0 THEN replies
             ELSE DictSet(replies, rest[Len(rest)][1], curr_action[1])

\* the while loop that pops action_used and writes last_good_replies
RECURSIVE update_replies(_, _, _)
update_replies(replies, used, winner) ==
    IF Len(used) = 0 THEN replies
    ELSE LET curr_action == used[Len(used)]
             rest == SubSeq(used, 1, Len(used) - 1)
         IN  IF curr_action[2] # winner THEN update_replies(replies, rest, winner)
             ELSE IF Len(rest) = 0 THEN replies
             ELSE LET preceding_action == rest[Len(rest)]
                  IN  update_replies(
                          DictSet(replies, preceding_action[1], curr_action[1]),
                          SubSeq(rest, 1, Len(rest) - 1), winner)

\* ---------------------------------------------------------------- think
Init ==
    /\ variant \in {"vanilla", "modified"}
    /\ num_nodes \in 1..MaxBudget
    /\ decisions = 0
    /\ pc = "idle"
    /\ err = ""
    /\ current_state = None
    /\ bot_identity = None
    /\ nodes = <<>>
    /\ iter = 0
    /\ node = None
    /\ state = None
    /\ action_used = <<>>
    /\ prev_action = None
    /\ played = <<>>
    /\ winning_bot = None
    /\ win = FALSE
    /\ best_action = None
    /\ last_good_replies = EmptyDict

\* think is entered: bot_identity and the root node
Think(s) ==
    /\ pc \in {"idle", "done"}
    /\ decisions < MaxDecisions
    /\ decisions' = decisions + 1
    /\ current_state' = s
    /\ bot_identity' = current_player(s)
    /\ nodes' = <<MCTSNode(None, None, legal_actions(s))>>
    /\ iter' = 0
    /\ node' = None
    /\ state' = None
    /\ action_used' = <<>>
    /\ prev_action' = None
    /\ played' = <<>>
    /\ winning_bot' = None
    /\ win' = FALSE
    /\ best_action' = None
    /\ pc' = "loop"
    /\ UNCHANGED <<variant, num_nodes, err, last_good_replies>>

Raise(e) ==
    /\ pc' = "error"
    /\ err' = e

\* one pass of the for loop begins: traverse_nodes from the root
Traverse ==
    /\ pc = "loop"
    /\ iter < num_nodes
    /\ LET r == traverse_nodes(nodes, Root, current_state, bot_identity)
       IN  IF r.raised
           THEN Raise("ZeroDivisionError") /\ UNCHANGED <<node, state>>
           ELSE /\ node' = r.node
                /\ state' = r.state
                /\ pc' = "expand"
                /\ UNCHANGED err
    /\ UNCHANGED <<variant, num_nodes, decisions, current_state, bot_identity,
                   nodes, iter, action_used, prev_action, played, winning_bot,
                   win, best_action, last_good_replies>>

\* expand_leaf, then rollout is entered with its fresh locals
ExpandLeaf ==
    /\ pc = "expand"
    /\ \E a \in expand_choices(nodes, node, state) :
         LET r == expand_leaf(nodes, node, state, a)
         IN  /\ nodes' = r.nodes
             /\ node' = r.node
             /\ state' = r.state
             /\ IF r.raised THEN Raise("TypeError")
                ELSE pc' = "rollout" /\ UNCHANGED err
    /\ action_used' = <<>>
    /\ prev_action' = None
    /\ played' = <<>>
    /\ winning_bot' = None
    /\ UNCHANGED <<variant, num_nodes, decisions, current_state, bot_identity,
                   iter, win, best_action, last_good_replies>>

\* one pass of the rollout loop on a state that has not ended
RolloutStep ==
    /\ pc = "rollout"
    /\ ~is_ended(state)
    /\ LET choices == rollout_choices(variant, state, prev_action, last_good_replies)
       IN  IF choices = {}
           THEN Raise("IndexError")
                /\ UNCHANGED <<state, action_used, prev_action, played>>
           ELSE \E new_action \in choices :
                  LET next == next_state(state, new_action)
                  IN  IF next = None
                      THEN /\ pc' = "score"
                           /\ UNCHANGED <<err, state, action_used, prev_action, played>>
                      ELSE /\ state' = next
                           /\ played' = Append(played,
                                  [action |-> new_action,
                                   from |-> state,
                                   mover |-> current_player(state),
                                   recorded |-> current_player(next)])
                           /\ IF variant = "modified"
                              THEN /\ action_used' = Append(action_used,
                                          <<new_action, current_player(next)>>)
                                   /\ prev_action' = new_action
                              ELSE UNCHANGED <<action_used, prev_action>>
                           /\ UNCHANGED <<pc, err>>
    /\ UNCHANGED <<variant, num_nodes, decisions, current_state, bot_identity,
                   nodes, iter, node, winning_bot, win, best_action,
                   last_good_replies>>

\* the rollout loop ends on an ended state
RolloutExit ==
    /\ pc = "rollout"
    /\ is_ended(state)
    /\ pc' = "score"
    /\ UNCHANGED <<variant, num_nodes, decisions, err, current_state, bot_identity,
                   nodes, iter, node, state, action_used, prev_action, played,
                   winning_bot, win, best_action, last_good_replies>>

\* is_win on the state the rollout stopped in; the modified rollout then
\* updates last_good_replies from action_used
Score ==
    /\ pc = "score"
    /\ IF is_win_raises(state)
       THEN Raise("AssertionError")
            /\ UNCHANGED <<win, winning_bot, action_used, last_good_replies>>
       ELSE LET we_won == is_win(state, bot_identity)
                winner == winning_identity(bot_identity, we_won)
            IN  /\ win' = we_won
                /\ pc' = "backprop"
                /\ UNCHANGED err
                /\ IF variant = "modified"
                   THEN /\ winning_bot' = winner
                        /\ last_good_replies' =
                               update_replies(last_good_replies, action_used, winner)
                        /\ action_used' = <<>>
                   ELSE UNCHANGED <<winning_bot, action_used, last_good_replies>>
    /\ UNCHANGED <<variant, num_nodes, decisions, current_state, bot_identity,
                   nodes, iter, node, state, prev_action, played, best_action>>

\* backpropagate(node, win) ends the pass
Backpropagate ==
    /\ pc = "backprop"
    /\ nodes' = backpropagate(nodes, node, win)
    /\ iter' = iter + 1
    /\ pc' = "loop"
    /\ UNCHANGED <<variant, num_nodes, decisions, err, current_state, bot_identity,
                   node, state, action_used, prev_action, played, winning_bot,
                   win, best_action, last_good_replies>>

\* the loop is over: get_best_action and return
GetBestAction ==
    /\ pc = "loop"
    /\ iter = num_nodes
    /\ LET r == get_best_action(nodes)
       IN  IF r.raised # ""
           THEN Raise(r.raised) /\ UNCHANGED best_action
           ELSE /\ best_action' = r.action
                /\ pc' = "done"
                /\ UNCHANGED err
    /\ UNCHANGED <<variant, num_nodes, decisions, current_state, bot_identity,
                   nodes, iter, node, state, action_used, prev_action, played,
                   winning_bot, win, last_good_replies>>

Next ==
    \/ \E s \in States : Think(s)
    \/ Traverse
    \/ ExpandLeaf
    \/ RolloutStep
    \/ RolloutExit
    \/ Score
    \/ Backpropagate
    \/ GetBestAction

Spec == Init /\ [][Next]_vars

\* the steps of a running think
Run ==
    \/ Traverse
    \/ ExpandLeaf
    \/ RolloutStep
    \/ RolloutExit
    \/ Score
    \/ Backpropagate
    \/ GetBestAction

\* think runs to completion once called: single-threaded, no suspension
FairSpec == Spec /\ WF_vars(Run)

\* ================================================================ properties

\* wins/visits of node c is at least wins/visits of node d
RateGeq(c, d) == nodes[c].wins * nodes[d].visits >= nodes[d].wins * nodes[c].visits

RootChildren == {nodes[Root].child_nodes[i][2] : i \in 1..Len(nodes[Root].child_nodes)}

\* ---------------------------------------------------------------- C1
\* a root with exactly two legal actions, each leading to an ended state, one
\* of them a win for the player to move and the other not
TwoWayRoot(s) ==
    /\ ~is_ended(s)
    /\ Cardinality(legal_actions(s)) = 2
    /\ \A a \in legal_actions(s) :
         next_state(s, a) # None /\ is_ended(next_state(s, a))
    /\ Cardinality({a \in legal_actions(s) :
                       is_win(next_state(s, a), current_player(s))}) = 1

WinningAction(s) ==
    CHOOSE a \in legal_actions(s) : is_win(next_state(s, a), current_player(s))

\* C1: on a root with two legal actions that lead to an ended state, one won by
\* the searching identity and one not, think with a budget of at least 4 does
\* not fail and returns the winning action, whatever the random choices and
\* the insertion order of the two children.
C1_EndToEndWin ==
    (pc # "idle" /\ TwoWayRoot(current_state) /\ num_nodes >= 4)
        => /\ pc # "error"
           /\ pc = "done" => best_action = WinningAction(current_state)

\* think has returned on such a root and the winning child was inserted first,
\* so that the losing child is the last one seen by get_best_action
C1_Witness ==
    /\ pc = "done"
    /\ TwoWayRoot(current_state)
    /\ num_nodes >= 4
    /\ Len(nodes[Root].child_nodes) = 2
    /\ nodes[Root].child_nodes[1][1] = WinningAction(current_state)
    /\ best_action = WinningAction(current_state)

\* ---------------------------------------------------------------- C2
\* C2: when think returns, the returned action is the parent_action of a root
\* child whose wins/visits is at least that of every root child, and it is a
\* legal action of the state think was called on.
C2_BestChildReturned ==
    pc = "done" =>
        /\ best_action \in legal_actions(current_state)
        /\ \E c \in RootChildren :
             /\ nodes[c].parent_action = best_action
             /\ \A d \in RootChildren : nodes[d].visits > 0 /\ RateGeq(c, d)

\* think has returned with root children of different win rates, the best one
\* not being the last inserted
C2_Witness ==
    /\ pc = "done"
    /\ Len(nodes[Root].child_nodes) >= 2
    /\ \E c, d \in RootChildren : ~RateGeq(d, c)
    /\ nodes[Root].child_nodes[Len(nodes[Root].child_nodes)][1] # best_action

\* ---------------------------------------------------------------- C3
\* C3: when next_state returns None during a rollout, the playout stops, the
\* last reached state is scored and the pass goes on to backpropagate: the
\* dead end raises nothing.  (pc = "score" on a state that has not ended is
\* exactly the stop on a dead end.)
C3_DeadEndAbsorbed ==
    [][(pc = "score" /\ ~is_ended(state)) => (pc' = "backprop" /\ err' = "")]_vars

\* ---------------------------------------------------------------- C4
\* the root think was called on has ended or has no legal action
BarrenRoot == pc # "idle" /\ (is_ended(current_state) \/ legal_actions(current_state) = {})

\* C4: think called on a root that has ended or has no legal action never
\* returns an action, and the call ends in an error.
C4_BarrenRootFails ==
    /\ [](BarrenRoot => (pc # "done" /\ best_action = None))
    /\ (BarrenRoot ~> (BarrenRoot /\ pc = "error"))

\* think has failed at the final selection on an ended root whose loop ran
\* the whole budget
C4_Witness ==
    /\ BarrenRoot
    /\ is_ended(current_state)
    /\ pc = "error"
    /\ err = "AttributeError"
    /\ iter = num_nodes
    /\ Len(nodes) = 1

\* ---------------------------------------------------------------- C5
\* four distinct actions recorded with the identities 1, 2, 1, 2
FourPly(h) ==
    /\ Len(h) = 4
    /\ h[1][2] = 1 /\ h[2][2] = 2 /\ h[3][2] = 1 /\ h[4][2] = 2
    /\ Cardinality({h[i][1] : i \in 1..4}) = 4

\* the modified rollout is about to score a four-ply history that identity 2 wins
FourPlyCase ==
    /\ pc = "score"
    /\ variant = "modified"
    /\ FourPly(action_used)
    /\ ~is_win_raises(state)
    /\ winning_identity(bot_identity, is_win(state, bot_identity)) = 2

\* C5 as stated: on the history [(a1,1), (a2,2), (a3,1), (a4,2)] won by
\* identity 2 the update writes table[a3] = a4 and nothing else.
C5_OnlyLastPair ==
    [][FourPlyCase =>
          last_good_replies' =
              DictSet(last_good_replies, action_used[3][1], action_used[4][1])]_vars

\* C5 amended: on the history [(a1,1), (a2,2), (a3,1), (a4,2)] won by
\* identity 2 the update writes table[a3] = a4 and table[a1] = a2, and writes
\* no entry for the keys a2 and a4.
C5_BothPairs ==
    [][FourPlyCase =>
          last_good_replies' =
              DictSet(DictSet(last_good_replies, action_used[3][1], action_used[4][1]),
                      action_used[1][1], action_used[2][1])]_vars

RecordedHistory == [i \in 1..Len(played) |-> <<played[i].action, played[i].recorded>>]

\* a four-ply rollout won by identity 2 has been scored and both pairs are in
\* the table
C5_Witness ==
    /\ pc = "backprop"
    /\ variant = "modified"
    /\ FourPly(RecordedHistory)
    /\ winning_bot = 2
    /\ played[1].action \in DOMAIN last_good_replies
    /\ played[3].action \in DOMAIN last_good_replies
    /\ last_good_replies[played[3].action] = played[4].action
    /\ last_good_replies[played[1].action] = played[2].action

\* ---------------------------------------------------------------- C6
\* the keys whose entry the step has added or changed
WrittenKeys ==
    {k \in DOMAIN last_good_replies' :
        k \notin DOMAIN last_good_replies
        \/ last_good_replies'[k] # last_good_replies[k]}

\* C6: every entry table[k] = v a rollout writes has v an action the rollout's
\* winning identity played in that rollout and k the action the other identity
\* played immediately before it.
C6_WinnerReplies ==
    [][(pc = "score" /\ variant = "modified") =>
          \A k \in WrittenKeys :
              \E i \in 2..Len(played) :
                  /\ played[i].action = last_good_replies'[k]
                  /\ played[i].mover = winning_bot'
                  /\ played[i - 1].action = k
                  /\ played[i - 1].mover # winning_bot']_vars

\* ---------------------------------------------------------------- C7
\* C7: no step removes a key of last_good_replies, think included, and only
\* the scoring step of the modified rollout changes the table.
C7_TablePersists ==
    [][/\ DOMAIN last_good_replies \subseteq DOMAIN last_good_replies'
       /\ last_good_replies' # last_good_replies
            => (pc = "score" /\ variant = "modified")]_vars

\* a second think has started and the table still holds entries of the first
C7_Witness ==
    /\ decisions = 2
    /\ pc = "loop"
    /\ iter = 0
    /\ last_good_replies # EmptyDict

\* ---------------------------------------------------------------- C8
\* C8: at the head of the loop root.visits is the number of completed passes,
\* and when think returns it is the budget.
C8_RootVisits ==
    /\ pc = "loop" => nodes[Root].visits = iter
    /\ pc = "done" => (iter = num_nodes /\ nodes[Root].visits = num_nodes)

\* think has returned from a tree at least three levels deep
C8_Witness ==
    /\ pc = "done"
    /\ nodes[Root].visits = num_nodes
    /\ \E n \in DOMAIN nodes :
         nodes[n].parent # None /\ nodes[nodes[n].parent].parent # None

\* ---------------------------------------------------------------- C9
\* C9: every node has 0 <= wins <= visits.
C9_WinsWithinVisits ==
    \A n \in DOMAIN nodes : 0 <= nodes[n].wins /\ nodes[n].wins <= nodes[n].visits

\* a node has both won and lost simulations
C9_Witness ==
    \E n \in DOMAIN nodes : 0 < nodes[n].wins /\ nodes[n].wins < nodes[n].visits

\* ---------------------------------------------------------------- C10
IsPrefix(p, q) == Len(p) <= Len(q) /\ \A i \in 1..Len(p) : p[i] = q[i]

\* C10: in every step of a search, every node keeps existing, its
\* untried_actions does not gain an action and its children keep their keys
\* and nodes (a step of a search is any step but the start of a new think).
C10_MonotonicExpansion ==
    [][pc \notin {"idle", "done"} =>
          \A n \in DOMAIN nodes :
              /\ n \in DOMAIN nodes'
              /\ nodes'[n].untried_actions \subseteq nodes[n].untried_actions
              /\ IsPrefix(nodes[n].child_nodes, nodes'[n].child_nodes)]_vars

\* a node has been fully expanded into at least two children
C10_Witness ==
    \E n \in DOMAIN nodes :
        /\ nodes[n].untried_actions = {}
        /\ Len(nodes[n].child_nodes) >= 2


\* ---------------------------------------------------------------- C11
\* C11: ucb and the final wins/visits never meet a zero: no ZeroDivisionError
\* (or math domain error) ends think, and at the head of the loop, where
\* traverse_nodes and get_best_action read the statistics, every node below
\* the root has visits > 0 and so has its parent.
C11_NoZeroVisitRead ==
    /\ err # "ZeroDivisionError"
    /\ pc = "loop" =>
         \A n \in DOMAIN nodes :
             nodes[n].parent # None =>
                 nodes[n].visits > 0 /\ nodes[nodes[n].parent].visits > 0

\* traverse_nodes has scored the children of the root and of one of them
C11_Witness ==
    /\ pc = "expand"
    /\ node # Root
    /\ nodes[node].parent # Root
    /\ nodes[Root].untried_actions = {}

\* ---------------------------------------------------------------- C12
\* the nodes from n up to the root
RECURSIVE PathToRoot(_)
PathToRoot(n) == IF n = None THEN {} ELSE {n} \cup PathToRoot(nodes[n].parent)

\* C12: backpropagate(node, win) adds 1 to visits on node and on each of its
\* ancestors, adds 1 to wins on each of them exactly when win holds, and
\* leaves every other node and every other field as it was.
C12_BackpropagatePath ==
    [][pc = "backprop" =>
          /\ DOMAIN nodes' = DOMAIN nodes
          /\ \A n \in DOMAIN nodes :
               nodes'[n] =
                   IF n \in PathToRoot(node)
                   THEN [nodes[n] EXCEPT !.visits = @ + 1,
                                         !.wins = IF win THEN @ + 1 ELSE @]
                   ELSE nodes[n]]_vars

\* a won simulation has been backpropagated along a chain of three nodes
\* while another root child stayed off the path
C12_Witness ==
    /\ pc = "loop"
    /\ iter >= 1
    /\ win
    /\ node # None
    /\ nodes[node].parent # None
    /\ nodes[nodes[node].parent].parent # None
    /\ nodes[node].wins >= 1
    /\ \E n \in DOMAIN nodes : n \notin PathToRoot(node)


\* ---------------------------------------------------------------- C13
\* the state of node n: the root state advanced by the parent_action of each
\* node on the way down to n
RECURSIVE NodeState(_)
NodeState(n) ==
    IF nodes[n].parent = None THEN current_state
    ELSE next_state(NodeState(nodes[n].parent), nodes[n].parent_action)

\* the UCB value traverse_nodes gives child c: the flip is decided by the
\* player to move in the state of c's parent
UcbOf(c) ==
    ucb(nodes, c, current_player(NodeState(nodes[c].parent)) # bot_identity)

\* position of node c among the children of its parent
ChildIndex(c) ==
    CHOOSE i \in 1..Len(nodes[nodes[c].parent].child_nodes) :
        nodes[nodes[c].parent].child_nodes[i][2] = c

Siblings(c) == {k \in DOMAIN nodes : nodes[k].parent = nodes[c].parent}

\* c has a maximal UCB among its siblings and is the last of those that have
LastOfBestUcb(c) ==
    \A k \in Siblings(c) :
        /\ UcbOf(c) >= UcbOf(k)
        /\ UcbOf(k) = UcbOf(c) => ChildIndex(k) <= ChildIndex(c)

\* c has a maximal wins/visits among its siblings and is the last of those
LastOfBestRate(c) ==
    \A k \in Siblings(c) :
        /\ RateGeq(c, k)
        /\ RateGeq(k, c) => ChildIndex(k) <= ChildIndex(c)

\* C13: among siblings of equal maximal score the one inserted last is
\* selected: every node traverse_nodes went through is the last of the
\* children of maximal UCB, and the action think returns belongs to the last
\* of the root children of maximal wins/visits (also when that maximum is 0).
C13_LastTiedSiblingWins ==
    /\ pc = "expand" =>
         \A m \in PathToRoot(node) : m # Root => LastOfBestUcb(m)
    /\ pc = "done" =>
         \E c \in RootChildren :
             nodes[c].parent_action = best_action /\ LastOfBestRate(c)

\* traverse_nodes has chosen a node over an earlier sibling of the same UCB
C13_Witness ==
    /\ pc = "expand"
    /\ \E m \in PathToRoot(node) :
         /\ m # Root
         /\ \E k \in Siblings(m) :
              ChildIndex(k) < ChildIndex(m) /\ UcbOf(k) = UcbOf(m)

\* ---------------------------------------------------------------- C14
\* C14: traverse_nodes from the root returns a node that has untried actions
\* or has no children, together with the state reached from the root state
\* along the parent_actions of the path to that node; the tree is unchanged.
C14_TraverseResult ==
    [][(pc = "loop" /\ pc' = "expand") =>
          /\ nodes' = nodes
          /\ \/ nodes[node'].untried_actions # {}
             \/ nodes[node'].child_nodes = <<>>
          /\ state' = NodeState(node')]_vars

\* traverse_nodes has gone down two levels to a fully expanded node without
\* children
C14_Witness ==
    /\ pc = "expand"
    /\ nodes[node].parent # None
    /\ nodes[nodes[node].parent].parent # None
    /\ nodes[node].untried_actions = {}
    /\ nodes[node].child_nodes = <<>>
    /\ state = NodeState(node)
    /\ state # current_state


\* ---------------------------------------------------------------- C15
\* C15: on an ended state, or on a node without untried actions, expand_leaf
\* returns the node and the state it was given and changes no node, also when
\* the node of an ended state still lists untried actions.
C15_ExpandNoOp ==
    [][(pc = "expand"
        /\ (is_ended(state) \/ nodes[node].untried_actions = {})) =>
          /\ nodes' = nodes
          /\ node' = node
          /\ state' = state
          /\ pc' = "rollout"]_vars

\* expand_leaf has just returned the node of an ended state that still lists
\* an untried action
C15_Witness ==
    /\ pc = "rollout"
    /\ played = <<>>
    /\ is_ended(state)
    /\ nodes[node].untried_actions # {}
    /\ nodes[node].child_nodes = <<>>
    /\ Len(nodes) >= 2

\* ---------------------------------------------------------------- C16
\* C16: on a state that has not ended and a node with untried actions,
\* expand_leaf removes one action a from the node's untried_actions, appends
\* one node (parent the node, parent_action a, no visits, no wins, no
\* children, untried_actions the legal actions of next_state(state, a)),
\* stores it under key a, returns it with that next state and changes no
\* other node.
C16_ExpandCreatesChild ==
    [][(pc = "expand" /\ ~is_ended(state)
        /\ nodes[node].untried_actions # {}) =>
          \E a \in nodes[node].untried_actions :
              LET new_node == Len(nodes) + 1
              IN  /\ next_state(state, a) # None
                  /\ DOMAIN nodes' = DOMAIN nodes \cup {new_node}
                  /\ nodes'[new_node] =
                         [parent |-> node, parent_action |-> a,
                          child_nodes |-> <<>>,
                          untried_actions |-> legal_actions(next_state(state, a)),
                          wins |-> 0, visits |-> 0]
                  /\ nodes'[node] =
                         [nodes[node] EXCEPT
                             !.untried_actions = @ \ {a},
                             !.child_nodes = Append(@, <<a, new_node>>)]
                  /\ \A n \in DOMAIN nodes : n # node => nodes'[n] = nodes[n]
                  /\ node' = new_node
                  /\ state' = next_state(state, a)]_vars


\* ---------------------------------------------------------------- C17
\* the player to move in the state of m's parent is not the searching identity
OpponentChooses(m) == current_player(NodeState(nodes[m].parent)) # bot_identity

EqualVisits(m) == \A k \in Siblings(m) : nodes[k].visits = nodes[m].visits

\* C17: the flip is taken from the live state of each level: a node
\* traverse_nodes went through whose siblings all have its visit count has
\* the most wins of them when the searching identity is to move in the
\* parent's state, and the fewest when the opponent is.
C17_PerspectiveFlip ==
    pc = "expand" =>
        \A m \in PathToRoot(node) :
            (m # Root /\ EqualVisits(m)) =>
                \A k \in Siblings(m) :
                    IF OpponentChooses(m)
                    THEN nodes[m].wins <= nodes[k].wins
                    ELSE nodes[m].wins >= nodes[k].wins

\* traverse_nodes has gone through a node with fewer wins than a sibling of
\* the same visit count, below a parent where the opponent is to move, and
\* that parent was itself chosen where the searching identity is to move
C17_Witness ==
    /\ pc = "expand"
    /\ \E m \in PathToRoot(node) :
         /\ m # Root
         /\ nodes[m].parent # Root
         /\ OpponentChooses(m)
         /\ ~OpponentChooses(nodes[m].parent)
         /\ EqualVisits(m)
         /\ \E k \in Siblings(m) : nodes[k].wins > nodes[m].wins


\* ---------------------------------------------------------------- C18
\* the modified rollout has a previous action with a stored reply that is
\* legal in the current state
ReplyApplies ==
    /\ variant = "modified"
    /\ prev_action # None
    /\ prev_action \in DOMAIN last_good_replies
    /\ last_good_replies[prev_action] \in legal_actions(state)

\* C18: every action a rollout plays is legal in the state it is played in;
\* the modified rollout plays the stored reply to the previous action of this
\* rollout exactly when there is one and it is legal in the current state,
\* whatever think call wrote it, and the previous action it looks up is the
\* last action of this rollout (none before the first).
C18_RolloutPolicy ==
    [][(pc = "rollout" /\ played' # played) =>
          LET new_action == played'[Len(played')].action
          IN  /\ new_action \in legal_actions(state)
              /\ ReplyApplies => new_action = last_good_replies[prev_action]
              /\ (variant = "modified" /\ prev_action \in DOMAIN last_good_replies
                  /\ new_action = last_good_replies[prev_action]) => ReplyApplies
              /\ variant = "modified" =>
                   /\ prev_action = IF played = <<>> THEN None
                                    ELSE played[Len(played)].action
                   /\ prev_action' = new_action]_vars

\* in a later think call a rollout has played a reply stored by an earlier
\* one, in a state that had another legal action
C18_Witness ==
    /\ variant = "modified"
    /\ decisions = 2
    /\ pc \in {"rollout", "score"}
    /\ \E i \in 2..Len(played) :
         /\ played[i - 1].action \in DOMAIN last_good_replies
         /\ played[i].action = last_good_replies[played[i - 1].action]
         /\ Cardinality(legal_actions(played[i].from)) >= 2


\* ---------------------------------------------------------------- C19
RootActions == legal_actions(current_state)

Min(a, b) == IF a <= b THEN a ELSE b

\* C19: on a root that has not ended and has n >= 1 legal actions, each of the
\* first n passes expands the root itself; after k completed passes the root
\* has min(k, n) children under distinct legal actions, and once k >= n every
\* legal action of the root has a child with at least one visit.
C19_RootCoverage ==
    (pc # "idle" /\ ~is_ended(current_state) /\ RootActions # {}) =>
        /\ (pc = "expand" /\ iter < Cardinality(RootActions)) =>
               (node = Root /\ state = current_state)
        /\ pc \in {"loop", "done"} =>
               /\ Len(nodes[Root].child_nodes) = Min(iter, Cardinality(RootActions))
               /\ Cardinality(Keys(nodes[Root].child_nodes))
                      = Len(nodes[Root].child_nodes)
               /\ Keys(nodes[Root].child_nodes) \subseteq RootActions
               /\ iter >= Cardinality(RootActions) =>
                      \A a \in RootActions :
                          \E c \in RootChildren :
                              nodes[c].parent_action = a /\ nodes[c].visits >= 1

\* a root with three legal actions has a visited child for each of them and
\* the search has gone on below one of them
C19_Witness ==
    /\ pc = "loop"
    /\ ~is_ended(current_state)
    /\ Cardinality(RootActions) >= 3
    /\ iter > Cardinality(RootActions)
    /\ Keys(nodes[Root].child_nodes) = RootActions
    /\ \A c \in RootChildren : nodes[c].visits >= 1


\* ---------------------------------------------------------------- C20
\* the sum of the visits of the first i children of node n in the tree ns
RECURSIVE ChildVisits(_, _, _)
ChildVisits(ns, n, i) ==
    IF i = 0 THEN 0
    ELSE ns[ns[n].child_nodes[i][2]].visits + ChildVisits(ns, n, i - 1)

\* the visits of n that no child accounts for: the passes whose
\* backpropagation started at n
StartedAt(ns, n) == ns[n].visits - ChildVisits(ns, n, Len(ns[n].child_nodes))

RECURSIVE StartedUpTo(_, _)
StartedUpTo(ns, i) == IF i = 0 THEN 0 ELSE StartedAt(ns, i) + StartedUpTo(ns, i - 1)

TreeShape ==
    /\ Len(nodes) <= iter + 1
    /\ StartedUpTo(nodes, Len(nodes)) = iter
    /\ \A n \in DOMAIN nodes :
         /\ nodes[n].untried_actions \cap Keys(nodes[n].child_nodes) = {}
         /\ nodes[n].untried_actions \cup Keys(nodes[n].child_nodes)
                = legal_actions(NodeState(n))
         /\ Cardinality(Keys(nodes[n].child_nodes)) = Len(nodes[n].child_nodes)
         /\ \A i \in 1..Len(nodes[n].child_nodes) :
              LET a == nodes[n].child_nodes[i][1]
                  c == nodes[n].child_nodes[i][2]
              IN  /\ c \in DOMAIN nodes
                  /\ nodes[c].parent_action = a
                  /\ nodes[c].parent = n
         /\ StartedAt(nodes, n) >= 0

\* C20: between passes every node's untried_actions and child keys are
\* disjoint and together are the legal actions of the node's state, every child
\* stored under key a has parent_action a and that node as parent, the tree has
\* at most iter + 1 nodes, and a node's visits are its children's visits plus
\* the passes whose backpropagation started at it: that surplus is zero on a
\* new tree and on a new node, grows by one at the node backpropagate is
\* called with and nowhere else, and sums to iter over the tree.
C20_TreeAccounting ==
    /\ [](pc \in {"loop", "done"} => TreeShape)
    /\ [][/\ pc = "backprop" =>
               \A n \in DOMAIN nodes :
                   StartedAt(nodes', n)
                       = StartedAt(nodes, n) + (IF n = node THEN 1 ELSE 0)
          /\ pc \in {"expand", "rollout", "score"} =>
               /\ \A n \in DOMAIN nodes : StartedAt(nodes', n) = StartedAt(nodes, n)
               /\ \A n \in (DOMAIN nodes') \ (DOMAIN nodes) : StartedAt(nodes', n) = 0
         ]_vars

\* between passes: an inner node with children at which two passes started,
\* and a node at which none did
C20_Witness ==
    /\ pc = "loop"
    /\ iter >= 4
    /\ \E n \in DOMAIN nodes :
         /\ n # Root
         /\ nodes[n].child_nodes # <<>>
         /\ StartedAt(nodes, n) >= 1
         /\ nodes[n].visits > StartedAt(nodes, n)
    /\ \E n \in DOMAIN nodes : StartedAt(nodes, n) >= 2
    /\ StartedAt(nodes, Root) = 0

====
